---- MODULE Spec2Model ----
(***************************************************************************)
(* Model of scripts/utils.py, the helper functions of the Superstore data  *)
(* analysis: cargar_datos, procesar_fechas, crear_resumen_basico,          *)
(* analizar_valores_faltantes, the two chart builders,                     *)
(* analizar_rentabilidad_por_categoria, exportar_reporte_excel and         *)
(* calcular_metricas_cliente, applied by a host script to one DataFrame.   *)
(*                                                                         *)
(* Representation.                                                         *)
(*  - A cell is a record: S(x) a string, N(x) a number, NaN a missing      *)
(*    value, a date text [m, d, y] as read from the CSV ("m/d/y"), or a    *)
(*    parsed timestamp [dt |-> days since 1970-01-01].                     *)
(*  - A DataFrame is [columns, datetime, filas]: the labels in order, the  *)
(*    labels whose dtype is datetime64 (read_csv reads dates as text,      *)
(*    dtype object), and the rows, each a function from label to cell.     *)
(*  - A float is Fin(n, d), the exact quotient n/d in lowest terms, or one *)
(*    of the IEEE values Inf, NegInf, NaN that numpy yields for x/0.       *)
(*    Sales and Profit are floats with three decimals, so that round(2)    *)
(*    has a digit to drop. Arithmetic is exact: round(2) goes to the       *)
(*    nearest hundredth, a tie to the even one.                            *)
(*  - The library calls behave as in pandas 1.x / 2.x on numpy: reductions *)
(*    skip missing values, groupby drops missing keys, an aggregation of   *)
(*    no rows is an empty table. Date texts are month/day/year without a   *)
(*    time of day, and no date cell of the file is missing.                *)
(***************************************************************************)
EXTENDS Integers, Sequences, FiniteSets, TLC

VARIABLES archivo, df, res

vars == <<archivo, df, res>>

(* Largest number of data lines of the CSV file. *)
MaxFilas == 2

----------------------------------------------------------------------------
(* Cells *)

S(x) == [s |-> x]
N(x) == [n |-> x]
NaN == [nan |-> TRUE]
Texto(m, d, y) == [m |-> m, d |-> d, y |-> y]
Dt(o) == [dt |-> o]

Range(q) == {q[i] : i \in DOMAIN q}

----------------------------------------------------------------------------
(* Floats *)

Abs(x) == IF x < 0 THEN -x ELSE x

RECURSIVE MCD(_, _)
MCD(a, b) == IF b = 0 THEN a ELSE MCD(b, a % b)

Fin(n, d) ==
  LET g == MCD(Abs(n), Abs(d))
      sg == IF d < 0 THEN -1 ELSE 1
  IN [num |-> (sg * n) \div g, den |-> (sg * d) \div g]

Inf == [inf |-> 1]
NegInf == [inf |-> -1]

EsFinito(f) == "num" \in DOMAIN f

(* The number in a numeric cell, as a float. *)
Valor(c) == IF "n" \in DOMAIN c THEN Fin(c.n, 1) ELSE c

Sumar(f, g) == Fin(f.num * g.den + g.num * f.den, f.den * g.den)

(* Mutant: a guarded division that yields 0 for a zero divisor. *)
Dividir_Protegida(f, g) ==
  IF g.num = 0 THEN Fin(0, 1) ELSE Fin(f.num * g.den, f.den * g.num)

(* f / g on numpy scalars and on Series: division by zero raises nothing, *)
(* it yields nan for 0/0 and an infinity with the sign of f otherwise.    *)
Dividir(f, g) ==
  IF g.num = 0
    THEN (IF f.num = 0 THEN NaN ELSE IF f.num > 0 THEN Inf ELSE NegInf)
    ELSE Fin(f.num * g.den, f.den * g.num)

(* Mutant: the factor 100 is left out. *)
Por100_SinFactor(f) == f

(* f * 100 *)
Por100(f) == IF EsFinito(f) THEN Fin(f.num * 100, f.den) ELSE f

(* n/d (d > 0) to the nearest integer, a tie to the even one. *)
RedondeoPar(n, d) ==
  LET q == n \div d
      r == n - q * d
  IN IF 2 * r < d THEN q
     ELSE IF 2 * r > d THEN q + 1
     ELSE IF q % 2 = 0 THEN q ELSE q + 1

(* Mutant: the digits after the second decimal are cut off. *)
Redondear2_Truncado(f) ==
  IF EsFinito(f) THEN Fin((f.num * 100) \div f.den, 100) ELSE f

(* round(2): infinities and nan are kept. *)
Redondear2(f) ==
  IF EsFinito(f) THEN Fin(RedondeoPar(f.num * 100, f.den), 100) ELSE f

MayorIgual(f, g) == f.num * g.den >= g.num * f.den

----------------------------------------------------------------------------
(* cargar_datos: the column vocabulary *)

(* The pairs of the dict columnas_traducidas, in source order. *)
ParesTraduccion ==
  << <<"Row ID", "id_fila">>,
     <<"Order ID", "id_pedido">>,
     <<"Order Date", "fecha_pedido">>,
     <<"Ship Date", "fecha_envio">>,
     <<"Ship Mode", "modo_envio">>,
     <<"Customer ID", "id_cliente">>,
     <<"Customer Name", "nombre_cliente">>,
     <<"Segment", "segmento">>,
     <<"Country", "pais">>,
     <<"City", "ciudad">>,
     <<"State", "estado">>,
     <<"Postal Code", "codigo_postal">>,
     <<"Region", "region">>,
     <<"Product ID", "id_producto">>,
     <<"Category", "categoria">>,
     <<"Sub-Category", "subcategoria">>,
     <<"Product Name", "nombre_producto">>,
     <<"Sales", "ventas">>,
     <<"Quantity", "cantidad">>,
     <<"Discount", "descuento">>,
     <<"Profit", "ganancia">> >>

NombresOrigen == {p[1] : p \in Range(ParesTraduccion)}
NombresDestino == {p[2] : p \in Range(ParesTraduccion)}

columnas_traducidas ==
  [o \in NombresOrigen |->
     (CHOOSE p \in Range(ParesTraduccion) : p[1] = o)[2]]

(* Mutant: the key of one entry is misspelt, so that label is not renamed. *)
RenombrarEtiqueta_ClaveErrada(c) ==
  IF c \in DOMAIN columnas_traducidas \ {"Sub-Category"}
    THEN columnas_traducidas[c] ELSE c

(* DataFrame.rename(columns=...): a label that is a key of the mapping is  *)
(* replaced by its value, every other label is kept.                       *)
RenombrarEtiqueta(c) ==
  IF c \in DOMAIN columnas_traducidas THEN columnas_traducidas[c] ELSE c

Renombrar(d) ==
  [columns |-> [i \in DOMAIN d.columns |-> RenombrarEtiqueta(d.columns[i])],
   datetime |-> {RenombrarEtiqueta(c) : c \in d.datetime},
   filas |-> [i \in DOMAIN d.filas |->
                [c \in {RenombrarEtiqueta(k) : k \in DOMAIN d.filas[i]} |->
                   d.filas[i][CHOOSE k \in DOMAIN d.filas[i] :
                                RenombrarEtiqueta(k) = c]]]]

----------------------------------------------------------------------------
(* Calendar arithmetic behind pd.to_datetime and the .dt accessors.        *)
(* A timestamp is a count from the epoch 1970-01-01 (here in days: the     *)
(* texts of the file carry no time of day).                                *)

EsBisiesto(y) == (y % 4 = 0 /\ y % 100 # 0) \/ y % 400 = 0

DiasDelMes(m, y) ==
  IF m = 2 THEN (IF EsBisiesto(y) THEN 29 ELSE 28)
  ELSE IF m \in {4, 6, 9, 11} THEN 30 ELSE 31

(* A text "m/d/y" names a date iff the month and the day exist. *)
EsFechaValida(t) ==
  /\ t.m \in 1..12
  /\ t.d >= 1
  /\ t.d <= DiasDelMes(t.m, t.y)

(* Calendar date to days since the epoch. *)
DiasDesdeCivil(y, m, d) ==
  LET yy == IF m <= 2 THEN y - 1 ELSE y
      era == yy \div 400
      yoe == yy - era * 400
      mp == IF m > 2 THEN m - 3 ELSE m + 9
      doy == (153 * mp + 2) \div 5 + d - 1
      doe == yoe * 365 + yoe \div 4 - yoe \div 100 + doy
  IN era * 146097 + doe - 719468

(* Days since the epoch to calendar date. *)
CivilDesdeDias(o) ==
  LET z == o + 719468
      era == z \div 146097
      doe == z - era * 146097
      yoe == (doe - doe \div 1460 + doe \div 36524 - doe \div 146096) \div 365
      doy == doe - (365 * yoe + yoe \div 4 - yoe \div 100)
      mp == (5 * doy + 2) \div 153
      d == doy - (153 * mp + 2) \div 5 + 1
      m == IF mp < 10 THEN mp + 3 ELSE mp - 9
      y == yoe + era * 400 + (IF m <= 2 THEN 1 ELSE 0)
  IN [year |-> y, month |-> m, day |-> d]

(* pd.to_datetime on one cell: a timestamp is kept, a text is parsed. *)
EsParseable(c) == "dt" \in DOMAIN c \/ EsFechaValida(c)

to_datetime(c) ==
  IF "dt" \in DOMAIN c THEN c ELSE Dt(DiasDesdeCivil(c.y, c.m, c.d))

(* Series.dt.year, .dt.month, .dt.quarter, .dt.day_name() *)
dt_year(c) == N(CivilDesdeDias(c.dt).year)

dt_month(c) == N(CivilDesdeDias(c.dt).month)

dt_quarter(c) ==
  LET m == CivilDesdeDias(c.dt).month
  IN N(CASE m \in {1, 2, 3} -> 1
         [] m \in {4, 5, 6} -> 2
         [] m \in {7, 8, 9} -> 3
         [] OTHER -> 4)

NombresDias ==
  <<"Monday", "Tuesday", "Wednesday", "Thursday", "Friday", "Saturday",
    "Sunday">>

(* 1970-01-01 was a Thursday. *)
dt_day_name(c) == S(NombresDias[((c.dt + 3) % 7) + 1])

(* Mutant: the operands of the difference are swapped. *)
dt_days_Invertido(a, b) == N(b.dt - a.dt)

(* (a - b).dt.days for two timestamps *)
dt_days(a, b) == N(a.dt - b.dt)

----------------------------------------------------------------------------
(* The CSV file given to cargar_datos *)

(* Line-item samples the data lines of the file are drawn from. Dates are  *)
(* texts month/day/year; 2/30/2016 is a text no date parser accepts.       *)
Muestras ==
  << [pedido |-> "CA-1", fp |-> Texto(2, 28, 2016), fe |-> Texto(3, 1, 2016),
      modo |-> S("Second Class"), cli |-> "AA-1", nom |-> "Ana",
      postal |-> N(42420), cat |-> "Office", sub |-> "Paper",
      prod |-> "P-1", ventas |-> 100000, cant |-> 2, gan |-> 10000],
     [pedido |-> "CA-2", fp |-> Texto(12, 31, 2016), fe |-> Texto(1, 2, 2017),
      modo |-> S("Standard Class"), cli |-> "AA-1", nom |-> "Ana",
      postal |-> N(42420), cat |-> "Office", sub |-> "Binders",
      prod |-> "P-2", ventas |-> 200000, cant |-> 3, gan |-> 20000],
     [pedido |-> "CA-3", fp |-> Texto(12, 31, 2016),
      fe |-> Texto(12, 31, 2016),
      modo |-> NaN, cli |-> "BB-2", nom |-> "Bo",
      postal |-> NaN, cat |-> "Furniture", sub |-> "Chairs",
      prod |-> "P-3", ventas |-> 22368, cant |-> 1, gan |-> 2516],
     [pedido |-> "CA-3", fp |-> Texto(12, 31, 2016),
      fe |-> Texto(12, 29, 2016),
      modo |-> S("Same Day"), cli |-> "BB-2", nom |-> "Bo",
      postal |-> NaN, cat |-> "Office", sub |-> "Paper",
      prod |-> "P-1", ventas |-> 0, cant |-> 1, gan |-> 0],
     [pedido |-> "CA-4", fp |-> Texto(1, 2, 2017), fe |-> Texto(1, 2, 2017),
      modo |-> S("Same Day"), cli |-> "BB-2", nom |-> "Bo",
      postal |-> N(90036), cat |-> "Office", sub |-> "Paper",
      prod |-> "P-1", ventas |-> -100000, cant |-> 2, gan |-> -20000],
     [pedido |-> "CA-5", fp |-> Texto(1, 2, 2017), fe |-> Texto(2, 30, 2016),
      modo |-> S("First Class"), cli |-> "AA-1", nom |-> "Ana",
      postal |-> N(42420), cat |-> "Furniture", sub |-> "Chairs",
      prod |-> "P-3", ventas |-> 50000, cant |-> 1, gan |-> 5000],
     [pedido |-> "CA-6", fp |-> Texto(2, 30, 2016), fe |-> Texto(1, 2, 2017),
      modo |-> S("First Class"), cli |-> "CC-3", nom |-> "Cy",
      postal |-> N(90036), cat |-> "Furniture", sub |-> "Tables",
      prod |-> "P-4", ventas |-> 50000, cant |-> 1, gan |-> -5000],
     [pedido |-> "CA-7", fp |-> Texto(2, 28, 2016), fe |-> Texto(2, 28, 2016),
      modo |-> S("Same Day"), cli |-> "CC-3", nom |-> "Cy",
      postal |-> N(90036), cat |-> "Furniture", sub |-> "Tables",
      prod |-> "P-4", ventas |-> 1005, cant |-> 1, gan |-> 125] >>

(* The cell of line i (sample m) under the header label c. *)
CeldaCSV(m, i, c) ==
  CASE c = "Row ID" -> N(i)
    [] c = "Order ID" -> S(m.pedido)
    [] c = "Order Date" -> m.fp
    [] c = "Ship Date" -> m.fe
    [] c = "Ship Mode" -> m.modo
    [] c = "Customer ID" -> S(m.cli)
    [] c = "Customer Name" -> S(m.nom)
    [] c = "Segment" -> S("Consumer")
    [] c = "Country" -> S("United States")
    [] c = "City" -> S("Henderson")
    [] c = "State" -> S("Kentucky")
    [] c = "Postal Code" -> m.postal
    [] c = "Region" -> S("South")
    [] c = "Product ID" -> S(m.prod)
    [] c = "Category" -> S(m.cat)
    [] c = "Sub-Category" -> S(m.sub)
    [] c = "Product Name" -> S(m.prod)
    [] c = "Sales" -> Fin(m.ventas, 1000)
    [] c = "Quantity" -> N(m.cant)
    [] c = "Discount" -> N(0)
    [] c = "Profit" -> Fin(m.gan, 1000)
    [] OTHER -> S("x")

(* The header of the source schema, then a column the toolkit does not    *)
(* know.                                                                  *)
CabeceraCompleta ==
  [i \in 1..Len(ParesTraduccion) |-> ParesTraduccion[i][1]] \o <<"Extra">>

(* The labels a file may lack (one at a time). Without "Extra" the header *)
(* is exactly the source schema.                                          *)
Omitibles == {"Order Date", "Ship Date", "Sales", "Extra"}

SinEtiqueta(h, c) == SelectSeq(h, LAMBDA x : x # c)

Cabeceras ==
  {CabeceraCompleta} \cup {SinEtiqueta(CabeceraCompleta, c) : c \in Omitibles}

ArchivoDe(h, idx) ==
  [existe |-> TRUE,
   header |-> h,
   lineas |-> [i \in DOMAIN idx |->
                 [c \in Range(h) |-> CeldaCSV(Muestras[idx[i]], i, c)]]]

Archivos ==
  {ArchivoDe(h, idx) :
     h \in Cabeceras,
     idx \in UNION {[1..k -> DOMAIN Muestras] : k \in 0..MaxFilas}}

NoArchivo == [existe |-> FALSE]

----------------------------------------------------------------------------
(* State *)

(* df before cargar_datos has returned a DataFrame. *)
NoDF == [sin_cargar |-> TRUE]

Cargado == "columns" \in DOMAIN df

Ok(op, v) == [op |-> op, estado |-> "ok", error |-> "", valor |-> v]
Error(op, e) == [op |-> op, estado |-> "error", error |-> e, valor |-> <<>>]

Init ==
  /\ archivo \in Archivos \cup {NoArchivo}
  /\ df = NoDF
  /\ res = Ok("", <<>>)

----------------------------------------------------------------------------
(* DataFrame helpers *)

TieneColumna(d, c) == c \in Range(d.columns)

(* df[c] = vals: replaces the column, or appends it after the last one.  *)
(* esFecha: vals is a datetime64 Series.                                  *)
AsignarColumna(d, c, vals, esFecha) ==
  [columns |-> IF TieneColumna(d, c) THEN d.columns ELSE Append(d.columns, c),
   datetime |-> IF esFecha THEN d.datetime \cup {c} ELSE d.datetime \ {c},
   filas |-> [i \in DOMAIN d.filas |->
                [k \in DOMAIN d.filas[i] \cup {c} |->
                   IF k = c THEN vals[i] ELSE d.filas[i][k]]]]

Columna(d, c) == [i \in DOMAIN d.filas |-> d.filas[i][c]]

----------------------------------------------------------------------------
(* cargar_datos *)

(* pd.read_csv: the header line gives the labels, each data line a row. *)
read_csv(a) == [columns |-> a.header, datetime |-> {}, filas |-> a.lineas]

cargar_datos ==
  /\ IF archivo.existe
       THEN /\ df' = Renombrar(read_csv(archivo))
            /\ res' = Ok("cargar_datos", <<>>)
       ELSE /\ df' = df
            /\ res' = Error("cargar_datos", "FileNotFoundError")
  /\ UNCHANGED archivo

----------------------------------------------------------------------------
(* procesar_fechas *)

TodasParseables(col) == \A i \in DOMAIN col : EsParseable(col[i])

ColumnaFechas(col) == [i \in DOMAIN col |-> to_datetime(col[i])]

(* The five derived columns, assigned in source order. *)
VariablesTemporales(d) ==
  LET fp == Columna(d, "fecha_pedido")
      fe == Columna(d, "fecha_envio")
      d1 == AsignarColumna(d, "año", [i \in DOMAIN fp |-> dt_year(fp[i])],
                           FALSE)
      d2 == AsignarColumna(d1, "mes", [i \in DOMAIN fp |-> dt_month(fp[i])],
                           FALSE)
      d3 == AsignarColumna(d2, "dia_semana",
                           [i \in DOMAIN fp |-> dt_day_name(fp[i])], FALSE)
      d4 == AsignarColumna(d3, "trimestre",
                           [i \in DOMAIN fp |-> dt_quarter(fp[i])], FALSE)
  IN AsignarColumna(d4, "dias_envio",
                    [i \in DOMAIN fp |-> dt_days(fe[i], fp[i])], FALSE)

(* Mutant: the parsed order dates are used for the derived columns but    *)
(* not stored back, so fecha_pedido stays text.                            *)
ProcesarFechas_SinGuardar(d) ==
  IF ~TieneColumna(d, "fecha_pedido")
    THEN [res |-> Error("procesar_fechas", "KeyError"), df |-> d]
  ELSE IF ~TodasParseables(Columna(d, "fecha_pedido"))
    THEN [res |-> Error("procesar_fechas", "ValueError"), df |-> d]
  ELSE IF ~TieneColumna(d, "fecha_envio")
    THEN [res |-> Error("procesar_fechas", "KeyError"), df |-> d]
  ELSE IF ~TodasParseables(Columna(d, "fecha_envio"))
    THEN [res |-> Error("procesar_fechas", "ValueError"), df |-> d]
  ELSE
    LET d1 == AsignarColumna(d, "fecha_pedido",
                             ColumnaFechas(Columna(d, "fecha_pedido")), TRUE)
        d2 == AsignarColumna(d1, "fecha_envio",
                             ColumnaFechas(Columna(d1, "fecha_envio")), TRUE)
        e == VariablesTemporales(d2)
    IN [res |-> Ok("procesar_fechas", <<>>),
        df |-> AsignarColumna(e, "fecha_pedido", Columna(d, "fecha_pedido"),
                              FALSE)]

(* The outcome of procesar_fechas(d) and the DataFrame it leaves behind:  *)
(* each statement assigns into d, so a failure keeps the assignments made *)
(* before it.                                                             *)
ProcesarFechas(d) ==
  IF ~TieneColumna(d, "fecha_pedido")
    THEN [res |-> Error("procesar_fechas", "KeyError"), df |-> d]
  ELSE IF ~TodasParseables(Columna(d, "fecha_pedido"))
    THEN [res |-> Error("procesar_fechas", "ValueError"), df |-> d]
  ELSE
    LET d1 == AsignarColumna(d, "fecha_pedido",
                             ColumnaFechas(Columna(d, "fecha_pedido")), TRUE)
    IN IF ~TieneColumna(d1, "fecha_envio")
         THEN [res |-> Error("procesar_fechas", "KeyError"), df |-> d1]
       ELSE IF ~TodasParseables(Columna(d1, "fecha_envio"))
         THEN [res |-> Error("procesar_fechas", "ValueError"), df |-> d1]
       ELSE
         LET d2 == AsignarColumna(d1, "fecha_envio",
                                  ColumnaFechas(Columna(d1, "fecha_envio")),
                                  TRUE)
         IN [res |-> Ok("procesar_fechas", <<>>),
             df |-> VariablesTemporales(d2)]

procesar_fechas ==
  /\ Cargado
  /\ df' = ProcesarFechas(df).df
  /\ res' = ProcesarFechas(df).res
  /\ UNCHANGED archivo

----------------------------------------------------------------------------
(* Aggregation helpers (Series and groupby reductions) *)

Filas(d) == DOMAIN d.filas

EsNulo(c) == c = NaN

RECURSIVE SumaSobre(_, _, _)
(* sum() of column c over the rows I; missing values are skipped. *)
SumaSobre(d, c, I) ==
  IF I = {} THEN Fin(0, 1)
  ELSE LET i == CHOOSE j \in I : TRUE
           resto == SumaSobre(d, c, I \ {i})
       IN IF EsNulo(d.filas[i][c]) THEN resto
          ELSE Sumar(Valor(d.filas[i][c]), resto)

(* Mutant: 'count' in place of 'nunique'. *)
NUnicos_Contados(d, c, I) ==
  Cardinality({i \in I : ~EsNulo(d.filas[i][c])})

(* count() and nunique() of column c over the rows I *)
Contar(d, c, I) == Cardinality({i \in I : ~EsNulo(d.filas[i][c])})

NUnicos(d, c, I) ==
  Cardinality({d.filas[i][c] : i \in {j \in I : ~EsNulo(d.filas[j][c])}})

(* min() and max() of a datetime64 column over the non-empty rows I *)
FechaMin(d, c, I) ==
  CHOOSE x \in {d.filas[i][c] : i \in I} :
    \A y \in {d.filas[i][c] : i \in I} : x.dt <= y.dt

FechaMax(d, c, I) ==
  CHOOSE x \in {d.filas[i][c] : i \in I} :
    \A y \in {d.filas[i][c] : i \in I} : x.dt >= y.dt

(* groupby(claves): the key tuples of the rows whose keys are all present, *)
(* and the rows of one key tuple.                                          *)
ClaveDe(d, claves, i) == [k \in DOMAIN claves |-> d.filas[i][claves[k]]]

Grupos(d, claves) ==
  {ClaveDe(d, claves, i) :
     i \in {j \in Filas(d) :
              \A k \in DOMAIN claves : ~EsNulo(d.filas[j][claves[k]])}}

FilasDe(d, claves, g) == {i \in Filas(d) : ClaveDe(d, claves, i) = g}

(* A set as a sequence, in some order. *)
RECURSIVE EnSecuencia(_)
EnSecuencia(X) ==
  IF X = {} THEN <<>>
  ELSE LET x == CHOOSE y \in X : TRUE
       IN <<x>> \o EnSecuencia(X \ {x})

(* sort_values(..., ascending=False) with the default kind (quicksort,     *)
(* not stable): every arrangement of the records of X in which the keys    *)
(* do not increase; records with equal keys come in any order. clave maps  *)
(* each record to its key.                                                 *)
OrdenesDesc(X, clave) ==
  LET s == EnSecuencia(X)
      n == Len(s)
      perms == {p \in [1..n -> 1..n] :
                  /\ \A i, j \in 1..n : i # j => p[i] # p[j]
                  /\ \A i, j \in 1..n :
                       i < j => MayorIgual(clave[s[p[i]]], clave[s[p[j]]])}
  IN {[i \in 1..n |-> s[p[i]]] : p \in perms}

(* head(n) *)
Primeros(s, n) == SubSeq(s, 1, IF n < Len(s) THEN n ELSE Len(s))

(* d lacks one of the labels cols. *)
Faltan(d, cols) == \E i \in DOMAIN cols : ~TieneColumna(d, cols[i])

----------------------------------------------------------------------------
(* crear_resumen_basico *)

(* The dict entries are evaluated in source order; the first failure is    *)
(* the call's. min() of an object column is a str (or nan when empty),     *)
(* which has no strftime; min() of an empty datetime column is NaT, whose  *)
(* strftime raises.                                                        *)
CrearResumenBasico(d) ==
  LET op == "crear_resumen_basico"
      I == Filas(d)
  IN IF ~TieneColumna(d, "fecha_pedido") THEN Error(op, "KeyError")
     ELSE IF "fecha_pedido" \notin d.datetime THEN Error(op, "AttributeError")
     ELSE IF I = {} THEN Error(op, "ValueError")
     ELSE IF Faltan(d, <<"ventas", "ganancia", "id_pedido", "id_cliente",
                         "id_producto">>)
       THEN Error(op, "KeyError")
     ELSE Ok(op,
             [total_filas |-> Len(d.filas),
              total_columnas |-> Len(d.columns),
              periodo_datos |->
                <<CivilDesdeDias(FechaMin(d, "fecha_pedido", I).dt),
                  CivilDesdeDias(FechaMax(d, "fecha_pedido", I).dt)>>,
              total_ventas |-> SumaSobre(d, "ventas", I),
              total_ganancia |-> SumaSobre(d, "ganancia", I),
              margen_promedio |->
                Por100(Dividir(SumaSobre(d, "ganancia", I),
                               SumaSobre(d, "ventas", I))),
              pedidos_unicos |-> NUnicos(d, "id_pedido", I),
              clientes_unicos |-> NUnicos(d, "id_cliente", I),
              productos_unicos |-> NUnicos(d, "id_producto", I)])

crear_resumen_basico ==
  /\ Cargado
  /\ res' = CrearResumenBasico(df)
  /\ UNCHANGED <<archivo, df>>

----------------------------------------------------------------------------
(* analizar_valores_faltantes *)

(* Mutant: the share is taken of the number of columns. *)
RegistrosFaltantes_PorColumnas(d) ==
  {[columna |-> c,
    valores_faltantes |-> Cardinality({i \in Filas(d) : EsNulo(d.filas[i][c])}),
    porcentaje |->
      Por100(Dividir(
        Fin(Cardinality({i \in Filas(d) : EsNulo(d.filas[i][c])}), 1),
        Fin(Len(d.columns), 1)))] : c \in Range(d.columns)}

(* One record per column: isnull().sum() and its share of len(df). *)
RegistrosFaltantes(d) ==
  {[columna |-> c,
    valores_faltantes |-> Cardinality({i \in Filas(d) : EsNulo(d.filas[i][c])}),
    porcentaje |->
      Por100(Dividir(
        Fin(Cardinality({i \in Filas(d) : EsNulo(d.filas[i][c])}), 1),
        Fin(Len(d.filas), 1)))] : c \in Range(d.columns)}

AnalizarValoresFaltantes(d) ==
  LET resultado == {r \in RegistrosFaltantes(d) : r.valores_faltantes > 0}
  IN {Ok("analizar_valores_faltantes", v) :
        v \in OrdenesDesc(resultado,
                          [r \in resultado |-> Fin(r.valores_faltantes, 1)])}

analizar_valores_faltantes ==
  /\ Cargado
  /\ res' \in AnalizarValoresFaltantes(df)
  /\ UNCHANGED <<archivo, df>>

----------------------------------------------------------------------------
(* Sales per sub-category, the aggregation of crear_grafico_top_productos  *)
(* and of the sheet Top_Productos:                                         *)
(* df.groupby('subcategoria')['ventas'].sum().sort_values(ascending=False) *)
(*   .head(n)                                                              *)

VentasPorSubcategoria(d) ==
  {[subcategoria |-> g[1].s,
    ventas |-> SumaSobre(d, "ventas", FilasDe(d, <<"subcategoria">>, g))] :
     g \in Grupos(d, <<"subcategoria">>)}

TopProductos(d, n) ==
  {Primeros(s, n) :
     s \in OrdenesDesc(VentasPorSubcategoria(d),
                       [r \in VentasPorSubcategoria(d) |-> r.ventas])}

(* Default of the parameter top_n. *)
TopNDefecto == 10

(* Rows of the sheet Top_Productos. *)
TopNExcel == 20

(* if guardar and ruta_salida: fig.write_html(ruta_salida); an empty path  *)
(* stands for None.                                                        *)
Guardado(guardar, ruta_salida) ==
  IF guardar /\ ruta_salida # "" THEN ruta_salida ELSE ""

CrearGraficoTopProductos(d, top_n, guardar, ruta_salida) ==
  LET op == "crear_grafico_top_productos"
  IN IF Faltan(d, <<"subcategoria", "ventas">>) THEN {Error(op, "KeyError")}
     ELSE {Ok(op, [barras |-> b, escrito |-> Guardado(guardar, ruta_salida)]) :
             b \in TopProductos(d, top_n)}

crear_grafico_top_productos ==
  /\ Cargado
  /\ \E top_n \in {1, TopNDefecto}, guardar \in BOOLEAN,
        ruta_salida \in {"", "top.html"} :
       res' \in CrearGraficoTopProductos(df, top_n, guardar, ruta_salida)
  /\ UNCHANGED <<archivo, df>>

----------------------------------------------------------------------------
(* crear_grafico_ventas_temporales *)

(* pd.to_datetime on a DataFrame assembles dates from columns named after  *)
(* the units: a label counts as year, month or day only if it (or its      *)
(* lower case) is one of these names.                                      *)
UnidadDeEtiqueta(c) ==
  CASE c \in {"year", "years"} -> "year"
    [] c \in {"month", "months"} -> "month"
    [] c \in {"day", "days"} -> "day"
    [] OTHER -> c

SePuedenEnsamblar(etiquetas) ==
  {"year", "month", "day"} \subseteq {UnidadDeEtiqueta(c) : c \in etiquetas}

(* Sales per (año, mes), in key order. *)
VentasMensuales(d) ==
  {[anio |-> g[1].n, mes |-> g[2].n,
    ventas |-> SumaSobre(d, "ventas", FilasDe(d, <<"año", "mes">>, g))] :
     g \in Grupos(d, <<"año", "mes">>)}

(* The frame handed to to_datetime is ventas_mensuales[['año', 'mes']]     *)
(* with a column day added.                                                *)
CrearGraficoVentasTemporales(d, guardar, ruta_salida) ==
  LET op == "crear_grafico_ventas_temporales"
  IN IF Faltan(d, <<"año", "mes", "ventas">>) THEN Error(op, "KeyError")
     ELSE IF ~SePuedenEnsamblar({"año", "mes", "day"})
       THEN Error(op, "ValueError")
     ELSE Ok(op, [linea |-> VentasMensuales(d),
                  escrito |-> Guardado(guardar, ruta_salida)])

crear_grafico_ventas_temporales ==
  /\ Cargado
  /\ \E guardar \in BOOLEAN, ruta_salida \in {"", "ventas.html"} :
       res' = CrearGraficoVentasTemporales(df, guardar, ruta_salida)
  /\ UNCHANGED <<archivo, df>>

----------------------------------------------------------------------------
(* analizar_rentabilidad_por_categoria *)

(* One record per category: the sums rounded to 2 decimals, then the two   *)
(* ratios computed from the rounded sums and rounded again.                *)
RentabilidadDe(d, g) ==
  LET I == FilasDe(d, <<"categoria">>, g)
      ventas == Redondear2(SumaSobre(d, "ventas", I))
      ganancia == Redondear2(SumaSobre(d, "ganancia", I))
      pedidos == NUnicos(d, "id_pedido", I)
  IN [categoria |-> g[1].s,
      ventas |-> ventas,
      ganancia |-> ganancia,
      cantidad |-> SumaSobre(d, "cantidad", I),
      id_pedido |-> pedidos,
      margen_porcentaje |-> Redondear2(Por100(Dividir(ganancia, ventas))),
      venta_promedio |-> Redondear2(Dividir(ventas, Fin(pedidos, 1)))]

Rentabilidad(d) ==
  LET rentabilidad ==
        {RentabilidadDe(d, g) : g \in Grupos(d, <<"categoria">>)}
  IN OrdenesDesc(rentabilidad, [r \in rentabilidad |-> r.ventas])

AnalizarRentabilidadPorCategoria(d) ==
  LET op == "analizar_rentabilidad_por_categoria"
  IN IF Faltan(d, <<"categoria", "ventas", "ganancia", "cantidad",
                    "id_pedido">>)
       THEN {Error(op, "KeyError")}
     ELSE {Ok(op, v) : v \in Rentabilidad(d)}

analizar_rentabilidad_por_categoria ==
  /\ Cargado
  /\ res' \in AnalizarRentabilidadPorCategoria(df)
  /\ UNCHANGED <<archivo, df>>

----------------------------------------------------------------------------
(* calcular_metricas_cliente *)

MetricasDe(d, g) ==
  LET I == FilasDe(d, <<"id_cliente", "nombre_cliente">>, g)
      suma == SumaSobre(d, "ventas", I)
      n == Contar(d, "ventas", I)
      fmin == FechaMin(d, "fecha_pedido", I)
      fmax == FechaMax(d, "fecha_pedido", I)
  IN [id_cliente |-> g[1].s,
      nombre_cliente |-> g[2].s,
      ventas_sum |-> Redondear2(suma),
      ventas_mean |-> Redondear2(Dividir(suma, Fin(n, 1))),
      ventas_count |-> n,
      ganancia_sum |-> Redondear2(SumaSobre(d, "ganancia", I)),
      cantidad_sum |-> SumaSobre(d, "cantidad", I),
      fecha_pedido_min |-> fmin,
      fecha_pedido_max |-> fmax,
      dias_como_cliente |-> dt_days(fmax, fmin).n]

(* On an object column min and max are texts: their difference raises     *)
(* TypeError, and with no rows at all the .dt accessor raises              *)
(* AttributeError.                                                         *)
CalcularMetricasCliente(d) ==
  LET op == "calcular_metricas_cliente"
  IN IF Faltan(d, <<"id_cliente", "nombre_cliente", "ventas", "ganancia",
                    "cantidad", "fecha_pedido">>)
       THEN {Error(op, "KeyError")}
     ELSE IF "fecha_pedido" \notin d.datetime
       THEN {Error(op, IF Filas(d) = {} THEN "AttributeError"
                       ELSE "TypeError")}
     ELSE LET metricas_cliente ==
                {MetricasDe(d, g) :
                   g \in Grupos(d, <<"id_cliente", "nombre_cliente">>)}
          IN {Ok(op, v) :
                v \in OrdenesDesc(metricas_cliente,
                                  [r \in metricas_cliente |-> r.ventas_sum])}

(* Mutant: the rounding is applied to the caller's DataFrame as well. *)
calcular_metricas_cliente_EnSitio ==
  /\ Cargado
  /\ res' \in CalcularMetricasCliente(df)
  /\ df' = IF TieneColumna(df, "ventas")
             THEN AsignarColumna(df, "ventas",
                                 [i \in DOMAIN df.filas |->
                                    Redondear2(df.filas[i]["ventas"])],
                                 FALSE)
             ELSE df
  /\ UNCHANGED archivo

calcular_metricas_cliente ==
  /\ Cargado
  /\ res' \in CalcularMetricasCliente(df)
  /\ UNCHANGED <<archivo, df>>

----------------------------------------------------------------------------
(* exportar_reporte_excel *)

(* Sales, profit and quantity per (año, mes). *)
MensualExcel(d) ==
  {[anio |-> g[1].n, mes |-> g[2].n,
    ventas |-> SumaSobre(d, "ventas", FilasDe(d, <<"año", "mes">>, g)),
    ganancia |-> SumaSobre(d, "ganancia", FilasDe(d, <<"año", "mes">>, g)),
    cantidad |-> SumaSobre(d, "cantidad", FilasDe(d, <<"año", "mes">>, g))] :
     g \in Grupos(d, <<"año", "mes">>)}

(* The four sheets are built in order inside the ExcelWriter block; a      *)
(* failure of a composed call is the failure of the export. A path in a    *)
(* directory that does not exist cannot be opened.                         *)
ExportarReporteExcel(d, ruta_salida) ==
  LET op == "exportar_reporte_excel"
      resumen == CrearResumenBasico(d)
  IN IF ruta_salida = "/no/existe/reporte.xlsx" THEN {Error(op, "OSError")}
     ELSE IF resumen.estado = "error" THEN {Error(op, resumen.error)}
     ELSE IF Faltan(d, <<"categoria", "cantidad", "subcategoria", "año",
                         "mes">>)
       THEN {Error(op, "KeyError")}
     ELSE {Ok(op, [Resumen_General |-> resumen.valor,
                   Rentabilidad_Categoria |-> r,
                   Top_Productos |-> tp,
                   Ventas_Mensuales |-> MensualExcel(d),
                   escrito |-> ruta_salida]) :
             r \in Rentabilidad(d), tp \in TopProductos(d, TopNExcel)}

exportar_reporte_excel ==
  /\ Cargado
  /\ \E ruta_salida \in {"reporte.xlsx", "/no/existe/reporte.xlsx"} :
       res' \in ExportarReporteExcel(df, ruta_salida)
  /\ UNCHANGED <<archivo, df>>

----------------------------------------------------------------------------
Next ==
  \/ cargar_datos
  \/ procesar_fechas
  \/ crear_resumen_basico
  \/ analizar_valores_faltantes
  \/ crear_grafico_ventas_temporales
  \/ crear_grafico_top_productos
  \/ analizar_rentabilidad_por_categoria
  \/ exportar_reporte_excel
  \/ calcular_metricas_cliente

Spec == Init /\ [][Next]_vars

----------------------------------------------------------------------------
(* Vocabulary of the properties *)

Toolkit ==
  {"procesar_fechas", "crear_resumen_basico", "analizar_valores_faltantes",
   "crear_grafico_ventas_temporales", "crear_grafico_top_productos",
   "analizar_rentabilidad_por_categoria", "calcular_metricas_cliente",
   "exportar_reporte_excel"}

ColumnasDerivadas == <<"año", "mes", "dia_semana", "trimestre", "dias_envio">>

(* The DataFrame was loaded from a file with every column of the schema. *)
EsquemaCompleto == Cargado /\ NombresDestino \subseteq Range(df.columns)

(* procesar_fechas has run to its end on the DataFrame. *)
Enriquecido ==
  /\ Cargado
  /\ {"fecha_pedido", "fecha_envio"} \subseteq df.datetime
  /\ Range(ColumnasDerivadas) \subseteq Range(df.columns)

(* The file holds the full schema, date texts that parse, and sales whose  *)
(* total is not zero.                                                      *)
ArchivoSano ==
  /\ archivo.existe
  /\ NombresOrigen \subseteq Range(archivo.header)
  /\ \A i \in DOMAIN archivo.lineas :
       /\ EsFechaValida(archivo.lineas[i]["Order Date"])
       /\ EsFechaValida(archivo.lineas[i]["Ship Date"])

(* A float with at most three decimals, in thousandths. *)
Milesimas(f) == (f.num * 1000) \div f.den

(* A float with at most two decimals, in hundredths. *)
Centesimas(f) == (f.num * 100) \div f.den

RECURSIVE TotalArchivo(_, _)
(* The total, in thousandths, of the file's column c over the lines I. *)
TotalArchivo(c, I) ==
  IF I = {} THEN 0
  ELSE LET i == CHOOSE j \in I : TRUE
       IN Milesimas(archivo.lineas[i][c]) + TotalArchivo(c, I \ {i})

RECURSIVE CantidadArchivo(_)
CantidadArchivo(I) ==
  IF I = {} THEN 0
  ELSE LET i == CHOOSE j \in I : TRUE
       IN archivo.lineas[i]["Quantity"].n + CantidadArchivo(I \ {i})

Lineas == DOMAIN archivo.lineas

VentasNoCero == TotalArchivo("Sales", Lineas) # 0

(* c hundredths is m thousandths rounded to 2 decimals. *)
EsRedondeoDe(c, m) == 2 * Abs(10 * c - m) <= 10

----------------------------------------------------------------------------
(* C1 *)

(* The call op fails (for a writable path) on the DataFrame that          *)
(* procesar_fechas makes of df.                                            *)
FallaTrasProcesar(op) ==
  LET e == ProcesarFechas(df).df
      Fallan(R) == \A r \in R : r.estado = "error"
  IN CASE op = "crear_resumen_basico" -> Fallan({CrearResumenBasico(e)})
       [] op = "analizar_valores_faltantes" ->
            Fallan(AnalizarValoresFaltantes(e))
       [] op = "crear_grafico_ventas_temporales" ->
            Fallan({CrearGraficoVentasTemporales(e, FALSE, "")})
       [] op = "crear_grafico_top_productos" ->
            Fallan(CrearGraficoTopProductos(e, TopNDefecto, FALSE, ""))
       [] op = "analizar_rentabilidad_por_categoria" ->
            Fallan(AnalizarRentabilidadPorCategoria(e))
       [] op = "calcular_metricas_cliente" ->
            Fallan(CalcularMetricasCliente(e))
       [] op = "exportar_reporte_excel" ->
            Fallan(ExportarReporteExcel(e, "reporte.xlsx"))
       [] OTHER -> Fallan({ProcesarFechas(e).res})

----------------------------------------------------------------------------
(* C2 *)

(* The cells of the columns other than cols are the same in d and e. *)
IgualSalvo(d, e, cols) ==
  /\ Len(e.filas) = Len(d.filas)
  /\ \A i \in DOMAIN d.filas :
       \A c \in DOMAIN d.filas[i] \ cols :
         c \in DOMAIN e.filas[i] /\ e.filas[i][c] = d.filas[i][c]

(* C2: a toolkit call other than procesar_fechas leaves the dataset as it  *)
(* was (columns, rows, row order, cells); procesar_fechas keeps the number *)
(* and the order of the rows and every cell outside the two date columns   *)
(* and the five derived ones, and a successful procesar_fechas keeps the   *)
(* columns it found, adds the derived ones after them and leaves both      *)
(* date columns parsed.                                                    *)
C2_SoloProcesarCambia ==
  [][(Cargado /\ res'.op \in Toolkit) =>
       IF res'.op # "procesar_fechas" THEN df' = df
       ELSE /\ IgualSalvo(df, df', {"fecha_pedido", "fecha_envio"}
                                     \cup Range(ColumnasDerivadas))
            /\ SubSeq(df'.columns, 1, Len(df.columns)) = df.columns
            /\ res'.estado = "ok" =>
                 /\ Range(df'.columns) =
                      Range(df.columns) \cup Range(ColumnasDerivadas)
                 /\ {"fecha_pedido", "fecha_envio"} \subseteq df'.datetime
                 /\ \A i \in DOMAIN df'.filas :
                      /\ df'.filas[i]["fecha_pedido"] =
                           to_datetime(df.filas[i]["fecha_pedido"])
                      /\ df'.filas[i]["fecha_envio"] =
                           to_datetime(df.filas[i]["fecha_envio"])]_vars

(* Customer metrics computed on an enriched dataset with two rows. *)
C2_Testigo ==
  /\ Enriquecido
  /\ Len(df.filas) = 2
  /\ res.op = "calcular_metricas_cliente"
  /\ res.estado = "ok"

----------------------------------------------------------------------------
(* C3 *)

(* The rename is a bijection between the header and the columns of the     *)
(* DataFrame: a recognized label becomes its target in the same position,  *)
(* another label is kept, distinct labels stay distinct, no recognized     *)
(* source label is left, and the cells follow their column.                *)
RenombradoBiyectivo ==
  /\ Len(df.columns) = Len(archivo.header)
  /\ \A i \in DOMAIN archivo.header :
       IF archivo.header[i] \in NombresOrigen
         THEN df.columns[i] = columnas_traducidas[archivo.header[i]]
         ELSE df.columns[i] = archivo.header[i]
  /\ \A o1, o2 \in NombresOrigen :
       o1 # o2 => columnas_traducidas[o1] # columnas_traducidas[o2]
  /\ \A i, j \in DOMAIN df.columns : i # j => df.columns[i] # df.columns[j]
  /\ Range(df.columns) \cap NombresOrigen = {}
  /\ \A k \in DOMAIN df.filas :
       /\ DOMAIN df.filas[k] = Range(df.columns)
       /\ \A i \in DOMAIN archivo.header :
            df.filas[k][df.columns[i]] = archivo.lineas[k][archivo.header[i]]

(* C3 as stated: the rename of cargar_datos is a bijection on a schema of  *)
(* 22 recognized source columns.                                           *)
C3_Original ==
  (res.op = "cargar_datos" /\ res.estado = "ok")
    => Cardinality(NombresOrigen) = 22 /\ RenombradoBiyectivo

(* C3 amended: the rename of cargar_datos is a bijection on the schema of  *)
(* 21 recognized source columns: every recognized label of the header      *)
(* becomes exactly its target, no two source labels share a target, and    *)
(* no recognized source label remains.                                     *)
C3_Enmendada ==
  (res.op = "cargar_datos" /\ res.estado = "ok")
    => /\ Cardinality(NombresOrigen) = 21
       /\ Cardinality(NombresDestino) = 21
       /\ RenombradoBiyectivo

(* A file of the exact source schema with two lines has been loaded. *)
C3_Testigo ==
  /\ res.op = "cargar_datos"
  /\ res.estado = "ok"
  /\ Range(archivo.header) = NombresOrigen
  /\ Len(df.filas) = 2

----------------------------------------------------------------------------
(* C4, C5 *)

(* crear_resumen_basico was the last call, on a non-empty dataset of the   *)
(* full schema whose order dates are parsed.                               *)
ResumenPedido ==
  /\ EsquemaCompleto
  /\ res.op = "crear_resumen_basico"
  /\ df.filas # <<>>
  /\ "fecha_pedido" \in df.datetime

(* C4 as stated: crear_resumen_basico fails whenever the sum of the sales  *)
(* column is zero.                                                         *)
C4_Original ==
  (ResumenPedido /\ ~VentasNoCero) => res.estado = "error"

(* C4 amended: when the sum of the sales column is zero,                   *)
(* crear_resumen_basico raises nothing and returns a summary record whose  *)
(* margen_promedio is not a finite number: nan when the total profit is    *)
(* zero too, otherwise an infinity with the sign of the total profit.      *)
C4_Enmendada ==
  (ResumenPedido /\ ~VentasNoCero) =>
    /\ res.estado = "ok"
    /\ res.valor.total_ventas = Fin(0, 1)
    /\ LET g == TotalArchivo("Profit", Lineas)
       IN res.valor.margen_promedio =
            IF g = 0 THEN NaN ELSE IF g > 0 THEN Inf ELSE NegInf

(* A summary of sales that cancel out, with a loss. *)
C4_Testigo ==
  /\ ResumenPedido
  /\ ~VentasNoCero
  /\ TotalArchivo("Profit", Lineas) < 0
  /\ Len(df.filas) = 2

(* C5: on an enriched dataset with non-zero total sales the summary holds  *)
(* total_ventas = the sum of the sales of all rows, total_ganancia = the   *)
(* sum of their profits and margen_promedio = 100 * total_ganancia /       *)
(* total_ventas.                                                           *)
C5_Resumen ==
  (ResumenPedido /\ Enriquecido /\ VentasNoCero) =>
    /\ res.estado = "ok"
    /\ res.valor.total_ventas = Fin(TotalArchivo("Sales", Lineas), 1000)
    /\ res.valor.total_ganancia = Fin(TotalArchivo("Profit", Lineas), 1000)
    /\ res.valor.margen_promedio =
         Fin(100 * TotalArchivo("Profit", Lineas),
             TotalArchivo("Sales", Lineas))

(* A summary over two rows with sales 100 and 22.368. *)
C5_Testigo ==
  /\ ResumenPedido /\ Enriquecido
  /\ res.estado = "ok"
  /\ Len(df.filas) = 2
  /\ TotalArchivo("Sales", Lineas) = 122368

----------------------------------------------------------------------------
(* C6 *)

(* The day after the calendar date f. *)
DiaSiguiente(f) ==
  IF f.d < DiasDelMes(f.m, f.y) THEN Texto(f.m, f.d + 1, f.y)
  ELSE IF f.m < 12 THEN Texto(f.m + 1, 1, f.y)
  ELSE Texto(1, 1, f.y + 1)

RECURSIVE MasDias(_, _)
MasDias(f, n) == IF n = 0 THEN f ELSE MasDias(DiaSiguiente(f), n - 1)

(* b is the date n days after a (before, for n < 0). *)
DistaDias(a, b, n) ==
  IF n >= 0 THEN MasDias(a, n) = b ELSE MasDias(b, -n) = a

(* C6: after procesar_fechas on a dataset whose date texts all parse,      *)
(* every row has dias_envio = ship date - order date in whole days, mes =  *)
(* the month of the order date, trimestre in 1..4 and equal to             *)
(* ((mes - 1) \div 3) + 1; and the result is a function of the two date    *)
(* columns: procesar_fechas again changes nothing.                         *)
C6_Fechas ==
  (Enriquecido /\ res.op = "procesar_fechas") =>
    /\ \A i \in DOMAIN df.filas :
         LET f == df.filas[i]
             pedido == archivo.lineas[i]["Order Date"]
             envio == archivo.lineas[i]["Ship Date"]
         IN /\ DistaDias(pedido, envio, f["dias_envio"].n)
            /\ f["mes"].n = pedido.m
            /\ f["año"].n = pedido.y
            /\ f["trimestre"].n \in 1..4
            /\ f["trimestre"].n = ((f["mes"].n - 1) \div 3) + 1
    /\ ProcesarFechas(df).df = df

(* Enriched rows: one shipped two days later across the end of the year,   *)
(* one shipped across a leap day.                                          *)
C6_Testigo ==
  /\ Enriquecido /\ res.op = "procesar_fechas"
  /\ \E i, j \in DOMAIN df.filas :
       /\ df.filas[i]["mes"] = N(12)
       /\ df.filas[i]["dias_envio"] = N(2)
       /\ df.filas[j]["mes"] = N(2)
       /\ df.filas[j]["dias_envio"] = N(2)

----------------------------------------------------------------------------
(* C7 *)

NulosEn(c) == Cardinality({i \in DOMAIN df.filas : df.filas[i][c] = NaN})

(* C7: the report of analizar_valores_faltantes has a row for a column iff *)
(* the column has a missing value, each once; the percentage of a row is   *)
(* count / total rows * 100; the rows come by count descending; on an      *)
(* empty dataset the report is empty and nothing is raised.                *)
C7_Faltantes ==
  (Cargado /\ res.op = "analizar_valores_faltantes") =>
    /\ res.estado = "ok"
    /\ {res.valor[k].columna : k \in DOMAIN res.valor} =
         {c \in Range(df.columns) : NulosEn(c) >= 1}
    /\ \A k \in DOMAIN res.valor :
         /\ res.valor[k].valores_faltantes = NulosEn(res.valor[k].columna)
         /\ res.valor[k].porcentaje =
              Fin(100 * NulosEn(res.valor[k].columna), Len(df.filas))
    /\ \A j, k \in DOMAIN res.valor :
         /\ j # k => res.valor[j].columna # res.valor[k].columna
         /\ j < k =>
              res.valor[j].valores_faltantes >= res.valor[k].valores_faltantes
    /\ df.filas = <<>> => res.valor = <<>>

(* A report of two columns with different counts. *)
C7_Testigo ==
  /\ Cargado /\ res.op = "analizar_valores_faltantes"
  /\ Len(res.valor) = 2
  /\ res.valor[1].valores_faltantes = 2
  /\ res.valor[2].valores_faltantes = 1

----------------------------------------------------------------------------
(* C8 *)

LineasDeCategoria(c) ==
  {i \in Lineas : archivo.lineas[i]["Category"] = S(c)}

(* The record r reports the sums of its category: sales and profit         *)
(* rounded to 2 decimals, the quantity, the distinct orders, and the       *)
(* average sale per order within half a hundredth of sales / orders.       *)
SumasDeCategoria(r) ==
  LET I == LineasDeCategoria(r.categoria)
  IN /\ EsRedondeoDe(Centesimas(r.ventas), TotalArchivo("Sales", I))
     /\ EsRedondeoDe(Centesimas(r.ganancia), TotalArchivo("Profit", I))
     /\ r.cantidad = Fin(CantidadArchivo(I), 1)
     /\ r.id_pedido =
          Cardinality({archivo.lineas[i]["Order ID"] : i \in I})
     /\ r.id_pedido >= 1
     /\ EsFinito(r.venta_promedio)
     /\ 2 * Abs(Centesimas(r.venta_promedio) * r.id_pedido
                  - Centesimas(r.ventas)) <= r.id_pedido

(* The reported margin is within half a hundredth of 100 * profit / sales  *)
(* of the reported pair.                                                   *)
MargenRecalculable(r) ==
  /\ EsFinito(r.margen_porcentaje)
  /\ 2 * Abs(Centesimas(r.margen_porcentaje) * Centesimas(r.ventas)
               - 10000 * Centesimas(r.ganancia))
       <= Abs(Centesimas(r.ventas))

UnRegistroPorCategoria ==
  /\ {res.valor[k].categoria : k \in DOMAIN res.valor} =
       {archivo.lineas[i]["Category"].s : i \in Lineas}
  /\ \A j, k \in DOMAIN res.valor :
       j # k => res.valor[j].categoria # res.valor[k].categoria

(* analizar_rentabilidad_por_categoria was the last call, on a dataset of  *)
(* the full schema with at least one row.                                  *)
RentabilidadPedida ==
  /\ EsquemaCompleto
  /\ res.op = "analizar_rentabilidad_por_categoria"
  /\ df.filas # <<>>

(* C8 as stated: for every dataset the result holds, per category, the     *)
(* sums of sales, profit and quantity and the distinct orders, the margin  *)
(* profit / sales * 100 and the average sale per order, rounded to 2       *)
(* decimals, and the margin recomputes from the reported pair within the   *)
(* rounding tolerance.                                                     *)
C8_Original ==
  RentabilidadPedida =>
    /\ res.estado = "ok"
    /\ UnRegistroPorCategoria
    /\ \A k \in DOMAIN res.valor :
         SumasDeCategoria(res.valor[k]) /\ MargenRecalculable(res.valor[k])

(* C8 amended: the same, the margin clause for every category whose        *)
(* reported sales sum is not zero; for a category whose reported sales sum *)
(* is zero the margin is nan when its reported profit is zero too, and     *)
(* otherwise an infinity with the sign of the profit.                      *)
C8_Enmendada ==
  RentabilidadPedida =>
    /\ res.estado = "ok"
    /\ UnRegistroPorCategoria
    /\ \A k \in DOMAIN res.valor :
         LET r == res.valor[k]
         IN /\ SumasDeCategoria(r)
            /\ IF r.ventas # Fin(0, 1) THEN MargenRecalculable(r)
               ELSE r.margen_porcentaje =
                      IF r.ganancia.num = 0 THEN NaN
                      ELSE IF r.ganancia.num > 0 THEN Inf ELSE NegInf

(* The example of the claim: two rows of Office with sales 100 and 200 and *)
(* profit 10 and 20 give sales 300, profit 30 and margin 10.00.            *)
C8_Testigo ==
  /\ RentabilidadPedida
  /\ Len(df.filas) = 2
  /\ df.filas[1]["ventas"] = Fin(100, 1) /\ df.filas[1]["ganancia"] = Fin(10, 1)
  /\ df.filas[2]["ventas"] = Fin(200, 1) /\ df.filas[2]["ganancia"] = Fin(20, 1)
  /\ Len(res.valor) = 1
  /\ res.valor[1].categoria = "Office"
  /\ res.valor[1].ventas = Fin(300, 1)
  /\ res.valor[1].ganancia = Fin(30, 1)
  /\ res.valor[1].margen_porcentaje = Fin(10, 1)

----------------------------------------------------------------------------
(* C9 *)

LineasDeCliente(id, nombre) ==
  {i \in Lineas : /\ archivo.lineas[i]["Customer ID"] = S(id)
                  /\ archivo.lineas[i]["Customer Name"] = S(nombre)}

(* calcular_metricas_cliente was the last call, on an enriched dataset of  *)
(* the full schema with at least one row.                                  *)
MetricasPedidas ==
  /\ EsquemaCompleto /\ Enriquecido
  /\ res.op = "calcular_metricas_cliente"
  /\ df.filas # <<>>

(* The one line of a customer with a single order line. *)
LineaUnica(r) ==
  CHOOSE i \in LineasDeCliente(r.id_cliente, r.nombre_cliente) : TRUE

ConUnSoloPedido(r) ==
  Cardinality(LineasDeCliente(r.id_cliente, r.nombre_cliente)) = 1

(* C9 as stated: on an enriched dataset the call succeeds, and every       *)
(* customer with exactly one order has dias_como_cliente = 0 and           *)
(* ventas_mean equal to the value of that one sale.                        *)
C9_Original ==
  MetricasPedidas =>
    /\ res.estado = "ok"
    /\ \A k \in DOMAIN res.valor :
         ConUnSoloPedido(res.valor[k]) =>
           /\ res.valor[k].dias_como_cliente = 0
           /\ res.valor[k].ventas_mean =
                archivo.lineas[LineaUnica(res.valor[k])]["Sales"]

(* C9 amended: on an enriched dataset the call succeeds, and every         *)
(* customer with exactly one order has dias_como_cliente = 0 and           *)
(* ventas_mean equal to the value of that one sale rounded to 2 decimals.  *)
C9_Enmendada ==
  MetricasPedidas =>
    /\ res.estado = "ok"
    /\ \A k \in DOMAIN res.valor :
         ConUnSoloPedido(res.valor[k]) =>
           /\ res.valor[k].dias_como_cliente = 0
           /\ res.valor[k].ventas_count = 1
           /\ EsRedondeoDe(
                Centesimas(res.valor[k].ventas_mean),
                Milesimas(archivo.lineas[LineaUnica(res.valor[k])]["Sales"]))

(* Metrics of two customers, one of them with the single sale 22.368. *)
C9_Testigo ==
  /\ MetricasPedidas
  /\ Len(res.valor) = 2
  /\ \E k \in DOMAIN res.valor :
       /\ ConUnSoloPedido(res.valor[k])
       /\ archivo.lineas[LineaUnica(res.valor[k])]["Sales"] = Fin(22368, 1000)

----------------------------------------------------------------------------
(* C10 *)

(* C10 as stated: a procesar_fechas that fails leaves the dataset exactly  *)
(* as it was before the call.                                              *)
C10_Atomico ==
  [][(Cargado /\ res'.op = "procesar_fechas" /\ res'.estado = "error")
       => df' = df]_vars

====
